---- MODULE Spec2Model ----
(***************************************************************************)
(* A model of pkpass's identity database (libpkpass/identities.py) and of  *)
(* the generic command's recipient resolution and identity validation      *)
(* (libpkpass/commands/command.py).                                        *)
(*                                                                         *)
(* Python strings are sequences of one-character strings, so that split,   *)
(* strip, endswith and os.path.join are computed as Python computes them.  *)
(* Python values that may be None are tagged records [t, v].               *)
(*                                                                         *)
(* Three specifications share the variables:                               *)
(*   SpecResolve  command.py:92 and Command._build_recipient_list, from    *)
(*                every configuration of the input sets;                   *)
(*   SpecDB       an IdentityDB whose public methods are called in any     *)
(*                order, the verification threads interleaving freely;     *)
(*   Spec         Command.run from command.py:106 on, for a resolved       *)
(*                recipient list.                                          *)
(* SpecDB calls load_certs_from_directory with connectmap=None; Spec also   *)
(* runs it with a connector.  `writers` is a history variable: the program *)
(* does not hold it.                                                       *)
(***************************************************************************)
EXTENDS Integers, Sequences, FiniteSets, TLC

VARIABLES
    args,            \* Command.args: the merged configuration dictionary
    recipient_list,  \* Command.recipient_list
    pc,              \* position of the main thread in Command.run or in the caller
    error,           \* the exception that ended the run, "none" while there is none
    iddb,            \* IdentityDB.iddb: uid -> identity dictionary
    cabundle,        \* IdentityDB.cabundle
    disk,            \* the directories on disk: path -> set of file names
    verify_on_load,  \* the verify_on_load argument of the running load_certs_from_directory
    pending,         \* identities the loop at identities.py:83 has still to visit
    threads,         \* the list `threads` of load_certs_from_directory
    writers,         \* history: uid -> the threads that assigned that record's 'certs'
    result           \* what the last call did: [op, arg, exc]

vars == <<args, recipient_list, pc, error, iddb, cabundle, disk, verify_on_load,
          pending, threads, writers, result>>

-----------------------------------------------------------------------------
(* Bounds of the model.                                                    *)

\* Longest `users` string enumerated exhaustively over Alphabet.
MaxUsersLen == 4

\* Most entries a directory on disk holds.
MaxDirEntries == 3

-----------------------------------------------------------------------------
(* Python strings and values.                                              *)

None == [t |-> "None"]
Str(s) == [t |-> "str", v |-> s]
List(l) == [t |-> "list", v |-> l]
\* A dict, by its keys in iteration order.
Dict(keys) == [t |-> "dict", v |-> keys]

\* Characters str.strip() removes (the inputs of this model use the blank only).
Whitespace == {" "}

\* str.split(sep) for a one-character separator: "" gives [""].
RECURSIVE Split(_, _)
Split(s, sep) ==
    IF \A i \in 1..Len(s) : s[i] # sep
    THEN <<s>>
    ELSE LET k == CHOOSE i \in 1..Len(s) :
                      s[i] = sep /\ \A j \in 1..(i - 1) : s[j] # sep
         IN  <<SubSeq(s, 1, k - 1)>> \o Split(SubSeq(s, k + 1, Len(s)), sep)

RECURSIVE LStrip(_)
LStrip(s) == IF s # <<>> /\ Head(s) \in Whitespace THEN LStrip(Tail(s)) ELSE s

RECURSIVE RStrip(_)
RStrip(s) ==
    IF s # <<>> /\ s[Len(s)] \in Whitespace
    THEN RStrip(SubSeq(s, 1, Len(s) - 1))
    ELSE s

\* str.strip()
Strip(s) == RStrip(LStrip(s))

\* str.endswith(suffix)
EndsWith(s, suffix) ==
    /\ Len(suffix) <= Len(s)
    /\ SubSeq(s, Len(s) - Len(suffix) + 1, Len(s)) = suffix

ToSet(l) == {l[i] : i \in 1..Len(l)}

\* list(set): every order in which a set can be iterated.
RECURSIVE ListsOfSet(_)
ListsOfSet(S) ==
    IF S = {} THEN {<<>>}
    ELSE UNION {{<<x>> \o p : p \in ListsOfSet(S \ {x})} : x \in S}

\* All strings over alphabet A of length at most n.
RECURSIVE Strings(_, _)
Strings(A, n) ==
    IF n = 0 THEN {<<>>}
    ELSE LET shorter == Strings(A, n - 1)
         IN  shorter \cup {Append(s, c) : s \in shorter, c \in A}

-----------------------------------------------------------------------------
(* Configuration keys and the inputs of recipient resolution.              *)

KUsers  == <<"u", "s", "e", "r", "s">>
KGroups == <<"g", "r", "o", "u", "p", "s">>
KEscrow == <<"e", "s", "c", "r", "o", "w", "_", "u", "s", "e", "r", "s">>
KIdentity == <<"i", "d", "e", "n", "t", "i", "t", "y">>

Alphabet == {"a", ",", " "}

\* "absent" marks a key the configuration does not hold at all.
Absent == [t |-> "absent"]

UsersInputs ==
    {Absent, None}
        \cup {Str(s) : s \in Strings(Alphabet, MaxUsersLen)}
        \cup {Str(<<"b", ",", " ", "a">>)}

GroupsInputs ==
    {Absent, None, Str(<<>>), Str(<<"t">>), Str(<<"m">>),
     Str(<<"t", ",", "m">>), Str(<<" ", "t">>), Str(<<"t", ",", "u">>)}

\* The member strings configured under the group keys "t" and "u"; no key "m".
TeamInputs ==
    {Str(<<"d", ",", " ", "a">>), Str(<<"d", ",">>)}

UTeam == Str(<<"a">>)

EscrowInputs == {None, Str(<<>>), Str(<<"c">>), Str(<<"c", ",">>), Str(<<" ", "a">>)}

Config(users, groups, team, escrow) ==
    LET base == (KEscrow :> escrow) @@ (<<"t">> :> team) @@ (<<"u">> :> UTeam)
        withU == IF users = Absent THEN base ELSE (KUsers :> users) @@ base
    IN  IF groups = Absent THEN withU ELSE (KGroups :> groups) @@ withU

-----------------------------------------------------------------------------
(* Command: recipient resolution.                                          *)

\* command.py:92
SplitEscrowUsers(a) ==
    IF a[KEscrow].t = "str" /\ a[KEscrow].v # <<>>
    THEN List(Split(a[KEscrow].v, ","))
    ELSE List(<<>>)

\* A group expansion that skips a group name that is no configuration key.
ParseGroupMembership_SkipMissing(a) ==
    LET groups == Split(a[KGroups].v, ",")
        RECURSIVE Walk(_, _)
        Walk(i, member_list) ==
            IF i > Len(groups) THEN [exc |-> "none", value |-> member_list]
            ELSE LET key == Strip(groups[i])
                 IN  IF key \notin DOMAIN a \/ a[key].t # "str"
                     THEN Walk(i + 1, member_list)
                     ELSE Walk(i + 1, member_list \o Split(a[key].v, ","))
    IN  Walk(1, <<>>)

\* Command._parse_group_membership: [exc, value]
ParseGroupMembership(a) ==
    LET groups == Split(a[KGroups].v, ",")
        RECURSIVE Walk(_, _)
        Walk(i, member_list) ==
            IF i > Len(groups) THEN [exc |-> "none", value |-> member_list]
            ELSE LET key == Strip(groups[i])
                 IN  IF key \notin DOMAIN a
                     THEN [exc |-> "GroupDefinitionError", value |-> <<>>]
                     ELSE IF a[key].t # "str"
                     THEN [exc |-> "AttributeError", value |-> <<>>]
                     ELSE Walk(i + 1, member_list \o Split(a[key].v, ","))
    IN  Walk(1, <<>>)

\* Command._build_recipient_list up to line 195: the entries gathered before
\* the set conversion, or the exception raised on the way.
GatherRecipients(a, rl) ==
    IF KEscrow \notin DOMAIN a THEN [exc |-> "KeyError", list |-> rl]
    ELSE
    LET rl1 == rl \o a[KEscrow].v
        grp == IF KGroups \in DOMAIN a /\ a[KGroups] # None
               THEN ParseGroupMembership(a)
               ELSE [exc |-> "none", value |-> <<>>]
        rl2 == rl1 \o grp.value
        rl3 == IF KUsers \in DOMAIN a /\ a[KUsers] # None
               THEN rl2 \o Split(a[KUsers].v, ",")
               ELSE rl2
    IN  IF grp.exc # "none" THEN [exc |-> grp.exc, list |-> rl1]
        ELSE [exc |-> "none", list |-> rl3]

\* command.py:196: deduplicate, then strip, in one of the set's orders.
DedupAndStrip(l) ==
    {[i \in 1..Len(order) |-> Strip(order[i])] : order \in ListsOfSet(ToSet(l))}

\* A null check that looks at the first entry only.
HasNullRecipient_FirstOnly(l) == l # <<>> /\ l[1] = <<>>

\* command.py:197-199
HasNullRecipient(l) == \E i \in 1..Len(l) : l[i] = <<>>

DBUnchanged ==
    UNCHANGED <<iddb, cabundle, disk, verify_on_load, pending, threads, writers, result>>

\* Command._run_command_setup, line 92
SetupEscrowUsers ==
    /\ pc = "setup"
    /\ args' = [args EXCEPT ![KEscrow] = SplitEscrowUsers(args)]
    /\ pc' = "build"
    /\ UNCHANGED <<recipient_list, error>>
    /\ DBUnchanged

\* command.py:200: the exceptions `except KeyError` catches. The error classes
\* of libpkpass/errors.py are distinct from KeyError.
CaughtAsKeyError(exc) == exc = "KeyError"

\* Command._build_recipient_list, called at command.py:104
BuildRecipientList ==
    /\ pc = "build"
    /\ LET g == GatherRecipients(args, recipient_list)
       IN  IF g.exc # "none"
           THEN /\ recipient_list' = g.list
                /\ error' = IF CaughtAsKeyError(g.exc) THEN "none" ELSE g.exc
                /\ pc' = IF CaughtAsKeyError(g.exc) THEN "resolved" ELSE "failed"
           ELSE \E l \in DedupAndStrip(g.list) :
                LET exc == IF HasNullRecipient(l) THEN "NullRecipientError" ELSE "none"
                    raised == exc # "none" /\ ~CaughtAsKeyError(exc)
                IN  /\ recipient_list' = l
                    /\ error' = IF raised THEN exc ELSE "none"
                    /\ pc' = IF raised THEN "failed" ELSE "resolved"
    /\ UNCHANGED args
    /\ DBUnchanged

InitResolve ==
    /\ \E u \in UsersInputs, g \in GroupsInputs, t \in TeamInputs, e \in EscrowInputs :
           args = Config(u, g, t, e)
    /\ recipient_list = <<>>
    /\ pc = "setup"
    /\ error = "none"
    /\ iddb = <<>>
    /\ cabundle = <<>>
    /\ disk = <<>>
    /\ verify_on_load = FALSE
    /\ pending = {}
    /\ threads = <<>>
    /\ writers = <<>>
    /\ result = [op |-> "none", arg |-> <<>>, exc |-> "none"]

NextResolve == SetupEscrowUsers \/ BuildRecipientList

SpecResolve == InitResolve /\ [][NextResolve]_vars

-----------------------------------------------------------------------------
(* The files on disk and the external collaborators of IdentityDB.         *)

Dir == <<"d">>
MissingDir == <<"n">>

F_a_crt   == <<"a", ".", "c", "r", "t">>
F_b_cert  == <<"b", ".", "c", "e", "r", "t">>
F_c_key   == <<"c", ".", "k", "e", "y">>
F_a_key   == <<"a", ".", "k", "e", "y">>
F_a_b_crt == <<"a", ".", "b", ".", "c", "r", "t">>
F_b_bak   == <<"b", ".", "b", "a", "k">>

Files == {F_a_crt, F_b_cert, F_c_key, F_a_key, F_a_b_crt, F_b_bak}

CABundle == <<"c", "a">>

\* os.path.join(path, fname) for a relative fname
PathJoin(path, fname) == path \o <<"/">> \o fname

\* pem.parse_file(path): the PEM blocks of the file, fixed per file name:
\* a.crt holds a chain of two certificates, a.b.crt holds none.
ParseFile(filepath) ==
    LET fname == Split(filepath, "/")[Len(Split(filepath, "/"))]
    IN  IF fname = F_a_crt THEN <<"A1", "A2">>
        ELSE IF fname = F_b_cert THEN <<"B1">>
        ELSE IF fname = F_a_b_crt THEN <<>>
        ELSE <<"X1">>

\* libpkpass.crypto.pk_verify_chain: "A2" and "X1" do not chain to the bundle.
PkVerifyChain(cert, bundle) == bundle = CABundle /\ cert \in {"A1", "B1"}

\* libpkpass.crypto.get_cert_*: opaque values derived from the certificate.
Derived(what, cert) == <<what, cert>>

-----------------------------------------------------------------------------
(* IdentityDB.                                                             *)

\* identities.py:16-17
Extensions(filetype) ==
    IF filetype = "certificate"
    THEN List(<<<<".", "c", "e", "r", "t">>, <<".", "c", "r", "t">>>>)
    ELSE Str(<<".", "k", "e", "y">>)

\* tuple(x): the items of a list, the characters of a string
TupleOf(x) == IF x.t = "list" THEN ToSet(x.v) ELSE {<<x.v[i]>> : i \in 1..Len(x.v)}

\* identities.py:57
MatchesExtension(fname, filetype) ==
    \E suffix \in TupleOf(Extensions(filetype)) : EndsWith(fname, suffix)

\* identities.py:58
UidOf(fname) == Split(fname, ".")[1]

PathField(filetype) == IF filetype = "certificate" THEN "certificate_path" ELSE "key_path"

\* identities.py:57-65, one directory entry
LoadEntry(db, path, fname, filetype) ==
    IF ~MatchesExtension(fname, filetype) THEN db
    ELSE LET uid == UidOf(fname)
             filepath == PathJoin(path, fname)
         IN  IF uid \in DOMAIN db
             THEN [db EXCEPT ![uid] = (PathField(filetype) :> filepath) @@ db[uid]]
             ELSE (uid :> (("uid" :> uid) @@ (PathField(filetype) :> filepath))) @@ db

\* IdentityDB._load_from_directory over the entries in the order os.listdir gave
RECURSIVE LoadFromDirectory(_, _, _, _)
LoadFromDirectory(db, path, entries, filetype) ==
    IF entries = <<>> THEN db
    ELSE LoadFromDirectory(LoadEntry(db, path, Head(entries), filetype),
                           path, Tail(entries), filetype)

\* A verification that keeps the certificates of an earlier verification.
VerifyBegin_KeepCerts(db, bundle, identity) ==
    [db EXCEPT ![identity] =
        IF "certs" \in DOMAIN db[identity]
        THEN ("cabundle" :> bundle) @@ db[identity]
        ELSE ("cabundle" :> bundle) @@ ("certs" :> <<>>) @@ db[identity]]

\* identities.py:97-98
VerifyBegin(db, bundle, identity) ==
    [db EXCEPT ![identity] = ("cabundle" :> bundle) @@ ("certs" :> <<>>) @@ db[identity]]

\* identities.py:100-109
CertDict(cert, bundle) ==
    [cert_bytes  |-> cert,
     verified    |-> PkVerifyChain(cert, bundle),
     fingerprint |-> Derived("fingerprint", cert),
     subject     |-> Derived("subject", cert),
     issuer      |-> Derived("issuer", cert),
     enddate     |-> Derived("enddate", cert),
     issuerhash  |-> Derived("issuerhash", cert),
     subjecthash |-> Derived("subjecthash", cert)]

\* identities.py:100-110, one iteration of the loop
VerifyAppend(db, identity, cert) ==
    [db EXCEPT ![identity] =
        ("certs" :> Append(db[identity]["certs"], CertDict(cert, db[identity]["cabundle"])))
            @@ db[identity]]

RECURSIVE VerifyLoop(_, _, _)
VerifyLoop(db, identity, blocks) ==
    IF blocks = <<>> THEN db
    ELSE VerifyLoop(VerifyAppend(db, identity, Head(blocks)), identity, Tail(blocks))

UnknownRecipient == "CliArgumentError: Recipient is not in the recipient database"
UnknownUser == "CliArgumentError: Your user is not in the recipient database"

\* IdentityDB.verify_identity run to its end: [exc, db]
VerifyIdentity(db, bundle, identity) ==
    IF identity \notin DOMAIN db THEN [exc |-> UnknownRecipient, db |-> db]
    ELSE LET db1 == VerifyBegin(db, bundle, identity)
         IN  IF "certificate_path" \notin DOMAIN db1[identity]
             THEN [exc |-> UnknownRecipient, db |-> db1]
             ELSE [exc |-> "none",
                   db  |-> VerifyLoop(db1, identity,
                                      ParseFile(db1[identity]["certificate_path"]))]

\* Parameters of verify_identity after self: identity, results.
VerifyIdentityParams == 2

\* A call of verify_identity with the positional arguments `actuals`.
CallVerifyIdentity(db, bundle, actuals) ==
    IF Len(actuals) # VerifyIdentityParams THEN [exc |-> "TypeError", db |-> db]
    ELSE VerifyIdentity(db, bundle, actuals[1])

\* Thread arguments that pass the same identity to every thread.
ThreadArgs_Shared(identity) == <<CHOOSE u \in DOMAIN iddb : TRUE, <<>>>>

\* identities.py:84-85: args=(identity, [])
ThreadArgs(identity) == <<identity, <<>>>>

NoCall == [op |-> "none", arg |-> <<>>, exc |-> "none"]

CmdUnchanged == UNCHANGED <<args, recipient_list, error>>

NoWriters == [u \in {} |-> {}]

\* identities.py:79-81 for certpath `path`: the state when the call has loaded
\* the directory, before the threads are started. The caller goes on at `next`,
\* or at `failed` when FileOpenError is raised.
LoadCerts(path, verify, next, failed) ==
    IF path \notin DOMAIN disk
    THEN /\ iddb' = iddb
         /\ result' = [op |-> "load_certs_from_directory", arg |-> path, exc |-> "FileOpenError"]
         /\ pending' = {}
         /\ pc' = failed
    ELSE \E entries \in ListsOfSet(disk[path]) :
         LET db == LoadFromDirectory(iddb, path, entries, "certificate")
         IN  /\ iddb' = db
             /\ result' = [op |-> "load_certs_from_directory", arg |-> path, exc |-> "none"]
             /\ pending' = IF verify THEN DOMAIN db ELSE {}
             /\ pc' = IF verify THEN "verify_all" ELSE next

\* identities.py:83-86: the loop starts one thread
StartThread ==
    /\ pc = "verify_all"
    /\ \E identity \in pending :
        /\ threads' = Append(threads, [args |-> ThreadArgs(identity), at |-> "start",
                                       blocks |-> <<>>, exc |-> "none"])
        /\ pending' = pending \ {identity}
    /\ UNCHANGED <<pc, iddb, cabundle, disk, verify_on_load, writers, result>>
    /\ CmdUnchanged

Finished(t) == t.at \in {"done", "raised"}

WroteCerts(i, identity) ==
    [u \in DOMAIN writers \cup {identity} |->
        IF u = identity
        THEN (IF u \in DOMAIN writers THEN writers[u] ELSE {}) \cup {i}
        ELSE writers[u]]

\* One step of thread i running verify_identity(*args).
ThreadStep(i) ==
    LET t == threads[i]
        identity == t.args[1]
    IN
    /\ ~Finished(t)
    /\ IF t.at = "start"
       THEN IF Len(t.args) # VerifyIdentityParams
            THEN /\ threads' = [threads EXCEPT ![i].at = "raised", ![i].exc = "TypeError"]
                 /\ UNCHANGED <<iddb, writers>>
            ELSE IF identity \notin DOMAIN iddb
            THEN /\ threads' = [threads EXCEPT ![i].at = "raised", ![i].exc = UnknownRecipient]
                 /\ UNCHANGED <<iddb, writers>>
            ELSE /\ iddb' = VerifyBegin(iddb, cabundle, identity)
                 /\ writers' = WroteCerts(i, identity)
                 /\ threads' = [threads EXCEPT ![i].at = "parse"]
       ELSE IF t.at = "parse"
       THEN /\ threads' =
                IF "certificate_path" \notin DOMAIN iddb[identity]
                THEN [threads EXCEPT ![i].at = "raised", ![i].exc = UnknownRecipient]
                ELSE [threads EXCEPT ![i].at = "loop",
                                     ![i].blocks = ParseFile(iddb[identity]["certificate_path"])]
            /\ UNCHANGED <<iddb, writers>>
       ELSE IF t.blocks = <<>>
            THEN /\ threads' = [threads EXCEPT ![i].at = "done"]
                 /\ UNCHANGED <<iddb, writers>>
            ELSE /\ iddb' = VerifyAppend(iddb, identity, Head(t.blocks))
                 /\ writers' = WroteCerts(i, identity)
                 /\ threads' = [threads EXCEPT ![i].blocks = Tail(t.blocks)]
    /\ UNCHANGED <<pc, cabundle, disk, verify_on_load, pending, result>>
    /\ CmdUnchanged

RunThread == \E i \in 1..Len(threads) : ThreadStep(i)

\* A join that waits for the first thread only.
Joined_FirstOnly(ts) == \A i \in 1..Len(ts) : i = 1 => Finished(ts[i])

\* A join whose caller sees the first exception raised in a thread.
JoinResult_FirstError(ts) ==
    IF \E i \in 1..Len(ts) : ts[i].exc # "none"
    THEN ts[CHOOSE i \in 1..Len(ts) : ts[i].exc # "none"].exc
    ELSE "none"

\* identities.py:87-88: Thread.join() returns None whatever the thread did.
JoinResult(ts) == "none"

\* The threads the loop at identities.py:87 can get past.
Joined(ts) == \A i \in 1..Len(ts) : Finished(ts[i])

\* identities.py:87-88 and the return of load_certs_from_directory
JoinThreads(next) ==
    /\ pc = "verify_all"
    /\ pending = {}
    /\ Joined(threads)
    /\ pc' = IF JoinResult(threads) = "none" THEN next ELSE "failed"
    /\ result' = [op |-> "verify_all", arg |-> <<>>, exc |-> JoinResult(threads)]
    /\ UNCHANGED <<iddb, cabundle, disk, verify_on_load, pending, threads, writers>>

-----------------------------------------------------------------------------
(* IdentityDB driven directly through its public methods.                  *)

Uids == {<<"a">>, <<"b">>, <<"c">>, <<"z">>}

\* load_certs_from_directory(path, verify_on_load=verify)
DBLoadCerts ==
    /\ pc = "idle"
    /\ \E path \in DOMAIN disk \cup {MissingDir}, verify \in BOOLEAN :
        /\ verify_on_load' = verify
        /\ LoadCerts(path, verify, "idle", "idle")
    /\ threads' = <<>>
    /\ writers' = NoWriters
    /\ UNCHANGED <<cabundle, disk>>
    /\ CmdUnchanged

DBJoinThreads == JoinThreads("idle") /\ CmdUnchanged

\* os.path.isdir(path)
IsDir(path) == path \in DOMAIN disk

\* load_keys_from_directory(path)
LoadKeys(path, next) ==
    /\ IF IsDir(path)
       THEN \E entries \in ListsOfSet(disk[path]) :
                iddb' = LoadFromDirectory(iddb, path, entries, "key")
       ELSE iddb' = iddb
    /\ result' = [op |-> "load_keys_from_directory", arg |-> path, exc |-> "none"]
    /\ pc' = next

DBLoadKeys ==
    /\ pc = "idle"
    /\ \E path \in DOMAIN disk \cup {MissingDir} : LoadKeys(path, "idle")
    /\ threads' = <<>>
    /\ writers' = NoWriters
    /\ UNCHANGED <<cabundle, disk, verify_on_load, pending>>
    /\ CmdUnchanged

\* verify_identity(uid, []) called directly
DBVerifyIdentity ==
    /\ pc = "idle"
    /\ \E uid \in Uids :
        LET r == CallVerifyIdentity(iddb, cabundle, <<uid, <<>>>>)
        IN  /\ iddb' = r.db
            /\ result' = [op |-> "verify_identity", arg |-> uid, exc |-> r.exc]
    /\ threads' = <<>>
    /\ writers' = NoWriters
    /\ UNCHANGED <<pc, cabundle, disk, verify_on_load, pending>>
    /\ CmdUnchanged

InitDB ==
    /\ args = <<>>
    /\ recipient_list = <<>>
    /\ error = "none"
    /\ pc = "idle"
    /\ iddb = <<>>
    /\ cabundle = CABundle
    /\ \E listing \in SUBSET Files :
        /\ Cardinality(listing) <= MaxDirEntries
        /\ disk = (Dir :> listing)
    /\ verify_on_load = FALSE
    /\ pending = {}
    /\ threads = <<>>
    /\ writers = NoWriters
    /\ result = NoCall

NextDB ==
    \/ DBLoadCerts
    \/ DBLoadKeys
    \/ DBVerifyIdentity
    \/ StartThread
    \/ RunThread
    \/ DBJoinThreads

SpecDB == InitDB /\ [][NextDB]_vars

-----------------------------------------------------------------------------
(* Command.run from the loading of the identities on: command.py:106-113   *)
(* and command.py:68.                                                      *)

KCabundle == <<"c", "a", "b", "u", "n", "d", "l", "e">>
KCertpath == <<"c", "e", "r", "t", "p", "a", "t", "h">>
KKeypath  == <<"k", "e", "y", "p", "a", "t", "h">>

KConnect  == <<"c", "o", "n", "n", "e", "c", "t">>

KeyDir == <<"k">>

\* tempfile.gettempdir()
TempDir == <<"t">>

\* The connector named in the connect map, and the directory its
\* certificates are cached in.
Connector == <<"x">>
CacheDir == PathJoin(TempDir, Connector)

\* connector.list_certificates(): the names the external source knows.
ListCertificates(connector) == {<<"b">>}

\* identities.py:46: the file a connector's certificates are written to
CacheFile(name) == name \o Extensions("certificate").v[1]

\* IdentityDB._load_certs_from_external for the connectors in `connectors`:
\* the outcomes [db, disk], one per order in which os.listdir can list.
RECURSIVE LoadCertsFromExternal(_, _, _, _)
LoadCertsFromExternal(db, dk, connectors, nocache) ==
    IF connectors = <<>> THEN {[db |-> db, disk |-> dk]}
    ELSE LET dirname == PathJoin(TempDir, Head(connectors))
             made == IF dirname \in DOMAIN dk THEN dk ELSE (dirname :> {}) @@ dk
             fetched ==
                 IF nocache \/ made[dirname] = {}
                 THEN [made EXCEPT ![dirname] =
                          @ \cup {CacheFile(n) : n \in ListCertificates(Head(connectors))}]
                 ELSE made
         IN  UNION {LoadCertsFromExternal(
                        LoadFromDirectory(db, dirname, entries, "certificate"),
                        fetched, Tail(connectors), nocache)
                    : entries \in ListsOfSet(fetched[dirname])}

\* The connect maps of a run, each with the cache directory found on disk.
ConnectCases ==
    {[connect |-> None, cache |-> <<>>],
     [connect |-> Dict(<<Connector>>), cache |-> <<>>],
     [connect |-> Dict(<<Connector>>), cache |-> (CacheDir :> {F_a_crt})]}

\* Longest resolved recipient list the run starts from.
MaxRecipients == 2

RecipientNames == {<<"a">>, <<"b">>, <<"c">>, <<"z">>}

RecipientLists == UNION {[1..n -> RecipientNames] : n \in 0..MaxRecipients}

CertListings == SUBSET {F_a_crt, F_b_cert}
KeyListings == SUBSET {F_a_key, F_c_key}

Disks ==
    {(Dir :> c) @@ (KeyDir :> k) : c \in CertListings, k \in KeyListings}
        \cup {(Dir :> c) : c \in CertListings}
        \cup {(KeyDir :> k) : k \in KeyListings}

\* command.py:262: the positional arguments of the call
ValidateActuals(recipient) == <<recipient>>

\* Command._validate_identities: [exc, db]
ValidateIdentities(db, bundle, rl, identity) ==
    LET RECURSIVE Walk(_, _)
        Walk(d, i) ==
            IF i > Len(rl)
            THEN IF identity \notin DOMAIN d
                 THEN [exc |-> UnknownUser, db |-> d]
                 ELSE [exc |-> "none", db |-> d]
            ELSE LET r == CallVerifyIdentity(d, bundle, ValidateActuals(rl[i]))
                 IN  IF r.exc # "none" THEN r
                     ELSE IF rl[i] \notin DOMAIN r.db
                     THEN [exc |-> UnknownRecipient, db |-> r.db]
                     ELSE Walk(r.db, i + 1)
    IN  Walk(db, 1)

\* identities.py:77-78: the outcomes [db, disk] of the connector loading
ExternalLoads(connectmap) ==
    IF connectmap # None /\ connectmap.v # <<>>
    THEN LoadCertsFromExternal(iddb, disk, connectmap.v, FALSE)
    ELSE {[db |-> iddb, disk |-> disk]}

\* command.py:107-111: load_certs_from_directory up to the start of the threads
RunLoadCerts ==
    /\ pc = "load_certs"
    /\ cabundle' = args[KCabundle].v
    /\ \E ext \in ExternalLoads(args[KConnect]) :
        /\ disk' = ext.disk
        /\ IF args[KCertpath] = None
           THEN /\ iddb' = ext.db
                /\ result' = [op |-> "load_certs_from_directory", arg |-> <<>>, exc |-> "none"]
                /\ pending' = IF verify_on_load THEN DOMAIN ext.db ELSE {}
                /\ pc' = IF verify_on_load THEN "verify_all" ELSE "load_keys"
                /\ error' = error
           ELSE IF args[KCertpath].v \notin DOMAIN ext.disk
           THEN /\ iddb' = ext.db
                /\ result' = [op |-> "load_certs_from_directory", arg |-> args[KCertpath].v,
                              exc |-> "FileOpenError"]
                /\ pending' = {}
                /\ pc' = "failed"
                /\ error' = "FileOpenError"
           ELSE \E entries \in ListsOfSet(ext.disk[args[KCertpath].v]) :
                LET db == LoadFromDirectory(ext.db, args[KCertpath].v, entries, "certificate")
                IN  /\ iddb' = db
                    /\ result' = [op |-> "load_certs_from_directory",
                                  arg |-> args[KCertpath].v, exc |-> "none"]
                    /\ pending' = IF verify_on_load THEN DOMAIN db ELSE {}
                    /\ pc' = IF verify_on_load THEN "verify_all" ELSE "load_keys"
                    /\ error' = error
    /\ threads' = <<>>
    /\ writers' = NoWriters
    /\ UNCHANGED <<args, recipient_list, verify_on_load>>

RunJoinThreads == JoinThreads("load_keys") /\ CmdUnchanged

\* command.py:112
RunLoadKeys ==
    /\ pc = "load_keys"
    /\ LoadKeys(args[KKeypath].v, "validate")
    /\ UNCHANGED <<cabundle, disk, verify_on_load, pending, threads, writers>>
    /\ CmdUnchanged

\* command.py:113
RunValidateIdentities ==
    /\ pc = "validate"
    /\ LET r == ValidateIdentities(iddb, cabundle, recipient_list, args[KIdentity].v)
       IN  /\ iddb' = r.db
           /\ error' = r.exc
           /\ result' = [op |-> "_validate_identities", arg |-> <<>>, exc |-> r.exc]
           /\ pc' = IF r.exc = "none" THEN "execute" ELSE "failed"
    /\ UNCHANGED <<args, recipient_list, cabundle, disk, verify_on_load, pending,
                   threads, writers>>

\* command.py:68: the command's own work, where the cryptography happens
RunCommandExecution ==
    /\ pc = "execute"
    /\ pc' = "done"
    /\ result' = [op |-> "_run_command_execution", arg |-> <<>>, exc |-> "none"]
    /\ UNCHANGED <<iddb, cabundle, disk, verify_on_load, pending, threads, writers>>
    /\ CmdUnchanged

Init ==
    /\ \E identity \in {<<"a">>, <<"c">>, <<"z">>}, case \in ConnectCases, d \in Disks :
        /\ args = (KIdentity :> Str(identity)) @@ (KCabundle :> Str(CABundle))
                      @@ (KCertpath :> Str(Dir)) @@ (KKeypath :> Str(KeyDir))
                      @@ (KConnect :> case.connect)
        /\ disk = d @@ case.cache
    /\ recipient_list \in RecipientLists
    /\ error = "none"
    /\ pc = "load_certs"
    /\ iddb = <<>>
    /\ cabundle = <<>>
    /\ verify_on_load \in BOOLEAN
    /\ pending = {}
    /\ threads = <<>>
    /\ writers = NoWriters
    /\ result = NoCall

Next ==
    \/ RunLoadCerts
    \/ StartThread
    \/ RunThread
    \/ RunJoinThreads
    \/ RunLoadKeys
    \/ RunValidateIdentities
    \/ RunCommandExecution

Spec == Init /\ [][Next]_vars

-----------------------------------------------------------------------------
(* Properties of recipient resolution, checked under SpecResolve.          *)

ResolutionEnded == pc \in {"resolved", "failed"}

Stripped(S) == {Strip(x) : x \in S}

NoDuplicates(l) == \A i, j \in 1..Len(l) : l[i] = l[j] => i = j

GroupsConfigured == KGroups \in DOMAIN args /\ args[KGroups] # None

UsersConfigured == KUsers \in DOMAIN args /\ args[KUsers] # None

\* The group names listed under `groups`, as the lookup at command.py:207 sees them.
ListedGroups == Stripped(ToSet(Split(args[KGroups].v, ",")))

UserEntries == IF UsersConfigured THEN ToSet(Split(args[KUsers].v, ",")) ELSE {}

\* After line 92 args['escrow_users'] is the list of escrow entries.
EscrowEntries == IF args[KEscrow].t = "list" THEN ToSet(args[KEscrow].v) ELSE {}

MemberEntries(group) == ToSet(Split(args[group].v, ","))

GroupEntries ==
    IF GroupsConfigured
    THEN UNION {MemberEntries(g) : g \in ListedGroups \cap DOMAIN args}
    ELSE {}

\* C6: whenever resolution succeeds, every entry of the resolved recipient list
\* is whitespace-trimmed and no name occurs in it more than once.
C6_DedupTrimmed ==
    pc = "resolved" =>
        /\ \A i \in 1..Len(recipient_list) : Strip(recipient_list[i]) = recipient_list[i]
        /\ NoDuplicates(recipient_list)

\* C7: with users a comma-separated list of names, groups the empty string and
\* escrow users set, resolution succeeds and the resolved recipients are, as a
\* set, exactly the trimmed user names and escrow user names.
C7_Determinism ==
    ( /\ ResolutionEnded
      /\ UsersConfigured
      /\ KGroups \in DOMAIN args /\ args[KGroups] = Str(<<>>)
      /\ EscrowEntries # {}
      /\ <<>> \notin Stripped(UserEntries \cup EscrowEntries) )
    => /\ pc = "resolved"
       /\ error = "none"
       /\ ToSet(recipient_list) = Stripped(UserEntries \cup EscrowEntries)

\* C8: with groups configured, if every listed group name is a configuration
\* key then resolution does not fail with GroupDefinitionError and the trimmed
\* members of every listed group are in the recipient list; if some listed
\* group name is no configuration key, resolution fails with
\* GroupDefinitionError and the command does not go on.
C8_GroupExpansion ==
    (ResolutionEnded /\ GroupsConfigured) =>
        IF ListedGroups \subseteq DOMAIN args
        THEN /\ error # "GroupDefinitionError"
             /\ Stripped(GroupEntries) \subseteq ToSet(recipient_list)
        ELSE /\ error = "GroupDefinitionError"
             /\ pc = "failed"

C8_Witness ==
    /\ pc = "resolved"
    /\ GroupsConfigured
    /\ args[KGroups] = Str(<<"t", ",", "u">>)
    /\ {<<"d">>, <<"a">>} \subseteq ToSet(recipient_list)

SomeEmptyEntry == <<>> \in Stripped(UserEntries \cup GroupEntries \cup EscrowEntries)

\* C9 as stated: whenever some entry of users, of a listed group's members or
\* of escrow users is empty after trimming, resolution fails with
\* NullRecipientError; and a resolved list never holds an empty name.
C9_EmptyEntryRejected ==
    /\ (ResolutionEnded /\ SomeEmptyEntry) => (pc = "failed" /\ error = "NullRecipientError")
    /\ pc = "resolved" => <<>> \notin ToSet(recipient_list)

\* C9 amended: the same, for the configurations in which group expansion
\* does not fail first (groups are not configured, or every listed group name
\* is a configuration key).
C9_EmptyEntryRejectedAfterGroups ==
    /\ ( /\ ResolutionEnded
         /\ SomeEmptyEntry
         /\ GroupsConfigured => ListedGroups \subseteq DOMAIN args )
       => (pc = "failed" /\ error = "NullRecipientError")
    /\ pc = "resolved" => <<>> \notin ToSet(recipient_list)

C9_Witness ==
    /\ pc = "failed"
    /\ error = "NullRecipientError"
    /\ UsersConfigured
    /\ args[KUsers] = Str(<<",">>)
    /\ ~GroupsConfigured

-----------------------------------------------------------------------------
(* Properties of identity validation in Command.run, checked under Spec.   *)

Validated == result.op = "_validate_identities"

Recipients == ToSet(recipient_list)

\* The certificates a completed verification of `uid` leaves in its record.
VerifiedCerts(uid) ==
    LET blocks == ParseFile(iddb[uid]["certificate_path"])
    IN  [i \in 1..Len(blocks) |-> CertDict(blocks[i], cabundle)]

HasCertificatePath(uid) == uid \in DOMAIN iddb /\ "certificate_path" \in DOMAIN iddb[uid]

\* C1: when some resolved recipient is absent from the store's mapping,
\* _validate_identities fails with the error saying the recipient is not in
\* the recipient database, and the run never reaches command execution.
C1_ValidatorGate ==
    (\E r \in Recipients : r \notin DOMAIN iddb) =>
        /\ pc \notin {"execute", "done"}
        /\ Validated => (pc = "failed" /\ error = UnknownRecipient)

\* C2: when every name of a non-empty recipient list is in the store with a
\* certificate path and the operator identity is in the store,
\* _validate_identities returns without error and every recipient's
\* certificates are then the ones its verification derives.
C2_SelfHealing ==
    ( /\ Validated
      /\ recipient_list # <<>>
      /\ \A r \in Recipients : HasCertificatePath(r)
      /\ args[KIdentity].v \in DOMAIN iddb )
    => /\ error = "none"
       /\ pc = "execute"
       /\ \A r \in Recipients :
            "certs" \in DOMAIN iddb[r] /\ iddb[r]["certs"] = VerifiedCerts(r)

-----------------------------------------------------------------------------
(* Properties of IdentityDB, checked under SpecDB.                         *)

VerifyAllReturned == result.op = "verify_all"

SomeThreadRaised == \E i \in 1..Len(threads) : threads[i].at = "raised"

ThreadIdentity(i) == threads[i].args[1]

\* C3 as stated: when a verification fails during the fan-out, the others
\* still run to completion and the call reports an error to its caller.
C3_ErrorReported ==
    (VerifyAllReturned /\ SomeThreadRaised) =>
        /\ \A i \in 1..Len(threads) : Finished(threads[i])
        /\ result.exc # "none"

\* C3 amended: when a verification fails during the fan-out, every other
\* identity's verification still runs to completion (each identity with a
\* certificate path ends with all its certificates derived), the call returns
\* only after all threads have finished, and it returns normally: no error
\* reaches the caller.
C3_ErrorNotReported ==
    (VerifyAllReturned /\ SomeThreadRaised) =>
        /\ \A i \in 1..Len(threads) :
            /\ Finished(threads[i])
            /\ HasCertificatePath(ThreadIdentity(i)) =>
                /\ threads[i].at = "done"
                /\ iddb[ThreadIdentity(i)]["certs"] = VerifiedCerts(ThreadIdentity(i))
        /\ result.exc = "none"
        /\ pc = "idle"

C3_Witness ==
    /\ VerifyAllReturned
    /\ SomeThreadRaised
    /\ \E i \in 1..Len(threads) :
        /\ threads[i].at = "done"
        /\ Len(iddb[ThreadIdentity(i)]["certs"]) = 2

ThreadsOf(uid) == {i \in 1..Len(threads) : ThreadIdentity(i) = uid}

SpawnComplete == (pc = "verify_all" /\ pending = {}) \/ VerifyAllReturned

\* C4: the fan-out starts exactly one thread per identity of the store and
\* returns only after every thread has finished; under every interleaving a
\* record's 'certs' is assigned by the identity's own thread only, by exactly
\* one thread once the call has returned, and the caller is never past the
\* call while a thread is still running.
C4_Barrier ==
    /\ \A i \in 1..Len(threads) :
        /\ ThreadIdentity(i) \in DOMAIN iddb \ pending
        /\ ThreadsOf(ThreadIdentity(i)) = {i}
    /\ SpawnComplete =>
        /\ Len(threads) = Cardinality(DOMAIN iddb)
        /\ \A uid \in DOMAIN iddb : Cardinality(ThreadsOf(uid)) = 1
    /\ \A uid \in DOMAIN writers : writers[uid] \subseteq ThreadsOf(uid)
    /\ pc # "verify_all" => Joined(threads)
    /\ VerifyAllReturned =>
        \A uid \in DOMAIN iddb :
            /\ uid \in DOMAIN writers
            /\ Cardinality(writers[uid]) = 1

C4_Witness ==
    /\ VerifyAllReturned
    /\ Len(threads) >= 2
    /\ \A i \in 1..Len(threads) : threads[i].at = "done"
    /\ \E i \in 1..Len(threads) : Len(iddb[ThreadIdentity(i)]["certs"]) = 2

\* The extensions the specification names for an artifact type.
KnownExtensions(filetype) ==
    IF filetype = "certificate"
    THEN {<<".", "c", "e", "r", "t">>, <<".", "c", "r", "t">>}
    ELSE {<<".", "k", "e", "y">>}

HasKnownExtension(fname, filetype) ==
    \E ext \in KnownExtensions(filetype) : EndsWith(fname, ext)

\* The file name with its extension stripped.
Stem(fname, filetype) ==
    LET ext == CHOOSE e \in KnownExtensions(filetype) : EndsWith(fname, e)
    IN  SubSeq(fname, 1, Len(fname) - Len(ext))

\* What loading `listing` from `path` for `filetype` is to make of `db`.
LoadedAsSpecified(db, after, path, listing, filetype) ==
    LET files == {f \in listing : HasKnownExtension(f, filetype)}
        uids == {Stem(f, filetype) : f \in files}
    IN  /\ DOMAIN after = DOMAIN db \cup uids
        /\ \A uid \in DOMAIN db \ uids : after[uid] = db[uid]
        /\ \A f \in files :
            LET uid == Stem(f, filetype)
                rec == after[uid]
            IN  /\ rec[PathField(filetype)] = PathJoin(path, f)
                /\ IF uid \in DOMAIN db
                   THEN /\ DOMAIN rec = DOMAIN db[uid] \cup {PathField(filetype)}
                        /\ \A k \in DOMAIN db[uid] \ {PathField(filetype)} :
                               rec[k] = db[uid][k]
                   ELSE /\ DOMAIN rec = {"uid", PathField(filetype)}
                        /\ rec["uid"] = uid

LoadStep(op) == pc = "idle" /\ result'.op = op /\ result'.exc = "none"

\* C5: a directory load for an artifact type adds or updates exactly the
\* identities of the files with one of that type's extensions, each under the
\* file name without its extension, touching only that type's path field;
\* every other file changes nothing.
C5_DirectoryLoading ==
    [][ /\ LoadStep("load_certs_from_directory") =>
            LoadedAsSpecified(iddb, iddb', result'.arg, disk[result'.arg], "certificate")
        /\ (LoadStep("load_keys_from_directory") /\ result'.arg \in DOMAIN disk) =>
            LoadedAsSpecified(iddb, iddb', result'.arg, disk[result'.arg], "key")
      ]_vars

VerifyIdentityReturned == result.op = "verify_identity"

\* C10: verify_identity(uid, []) raises the not-in-the-recipient-database
\* error exactly when uid is not in the store or its record has no
\* certificate path; otherwise it returns normally and the record's
\* certificates are one fully derived record per certificate of its file.
C10_VerifyIdentity ==
    VerifyIdentityReturned =>
        /\ result.exc \in {"none", UnknownRecipient}
        /\ result.exc = UnknownRecipient <=> ~HasCertificatePath(result.arg)
        /\ result.exc = "none" => iddb[result.arg]["certs"] = VerifiedCerts(result.arg)

C10_Witness ==
    /\ VerifyIdentityReturned
    /\ result.exc = "none"
    /\ Len(iddb[result.arg]["certs"]) = 2
    /\ iddb[result.arg]["certs"][1].verified
    /\ ~iddb[result.arg]["certs"][2].verified

\* The run is inside VerifyAll or past it, up to the point where validation
\* consults the store.
VerifyAllInvoked == verify_on_load /\ pc \in {"verify_all", "load_keys", "validate"}

\* The step is a load operation of the run.
LoadRuns == pc \in {"load_certs", "load_keys"} /\ pc' # pc

WorkersRunning == \E i \in 1..Len(threads) : ~Finished(threads[i])

VerifiedIdentities == {ThreadIdentity(i) : i \in 1..Len(threads)}

KeyOnly(uid) ==
    /\ PathField("key") \in DOMAIN iddb[uid]
    /\ PathField("certificate") \notin DOMAIN iddb[uid]

\* C11 as stated: once VerifyAll has been invoked no load operation runs any
\* more, and the set of identities stays the same from there until validation
\* has consulted the store.
C11_LoadBeforeVerify ==
    [][ VerifyAllInvoked => (~LoadRuns /\ DOMAIN iddb' = DOMAIN iddb) ]_vars

\* C11, amended: connector loading and certificate-directory loading are
\* complete when VerifyAll is invoked, and from its invocation to its return
\* and while any of its workers runs no load operation runs and the set of
\* identities does not change; key-directory loading runs after VerifyAll has
\* returned, so that when validation consults the store the identities are
\* the verified ones together with those that have a key file only.
C11_LoadsAroundVerify ==
    [][ /\ (pc = "load_certs" /\ pc' = "verify_all") =>
            (pending' = DOMAIN iddb' /\ threads' = <<>>)
        /\ (pc = "verify_all" \/ WorkersRunning) =>
            (~LoadRuns /\ DOMAIN iddb' = DOMAIN iddb)
        /\ (verify_on_load /\ pc = "load_keys") =>
            (VerifyAllReturned /\ VerifiedIdentities = DOMAIN iddb)
        /\ (verify_on_load /\ pc = "validate") =>
            /\ VerifiedIdentities \subseteq DOMAIN iddb
            /\ \A uid \in DOMAIN iddb \ VerifiedIdentities : KeyOnly(uid)
            /\ DOMAIN iddb' = DOMAIN iddb
      ]_vars

C11_Witness ==
    /\ verify_on_load
    /\ pc = "validate"
    /\ args[KConnect] # None
    /\ CacheFile(<<"b">>) \in disk[CacheDir]
    /\ <<"b">> \in VerifiedIdentities
    /\ \A i \in 1..Len(threads) : Finished(threads[i])
    /\ DOMAIN iddb \ VerifiedIdentities # {}

====
